---------------------------- MODULE Spec2Model ----------------------------
(***************************************************************************)
(* Model of the two operator scripts of planning-with-files:               *)
(*   scripts/session-catchup.py   (scanner, extractor, catchup main)       *)
(*   scripts/sync-ide-folders.py  (manifest builder, sync_file, sync main) *)
(*                                                                         *)
(* A session file is a sequence of lines; Python's 0-based enumerate()     *)
(* index of the line stored at position i of the sequence is i - 1.        *)
(* A line is the outcome of json.loads on it plus the one fact about its   *)
(* raw text that the scanner's pre-filter reads.  Python's None is the     *)
(* string "None".                                                          *)
(***************************************************************************)
EXTENDS Integers, Sequences, FiniteSets, TLC

VARIABLES
    \* scan_for_planning_update
    scan_file, scan_num, last_update_line, last_update_file, scan_pc,
    \* extract_messages_from_session
    ext_file, after_line, ext_num, result, ext_pc,
    \* main of session-catchup.py: the environment, then its locals
    ide, project_dir, pc, sessions, idx, update_session, update_line,
    update_file, update_session_idx, all_messages, inter_idx, output,
    \* main of sync-ide-folders.py: argv and the filesystem, then its locals
    dry_run, verify, dirs, fs, sync_pc, ide_idx, entry_idx, src, dst,
    action, stats, ide_changes, printed, exit_code,
    \* history: the filesystem the run started on, the files it has written
    fs0, dirs0, written,
    \* which run of the sync tool this is, the counters of the run before it
    run, stats1,
    \* a call of _build_manifest: its arguments, the dict it returns
    build_args, manifest, build_pc

scanVars == <<scan_file, scan_num, last_update_line, last_update_file, scan_pc>>
extVars  == <<ext_file, after_line, ext_num, result, ext_pc>>
mainVars == <<ide, project_dir, pc, sessions, idx, update_session, update_line,
              update_file, update_session_idx, all_messages, inter_idx, output>>
syncVars == <<dry_run, verify, dirs, fs, fs0, dirs0, sync_pc, ide_idx, entry_idx,
              src, dst, action, stats, ide_changes, printed, written, exit_code,
              run, stats1>>
buildVars == <<build_args, manifest, build_pc>>
vars == <<scanVars, extVars, mainVars, syncVars, buildVars>>

----------------------------------------------------------------------------
(* Bounds of the model                                                      *)

MaxLines == 3

----------------------------------------------------------------------------
(* Numbers and strings                                                      *)

Min(a, b) == IF a < b THEN a ELSE b

SetMax(S) == CHOOSE x \in S : \A y \in S : y <= x

\* str.endswith
EndsWith(s, suffix) ==
    /\ Len(s) >= Len(suffix)
    /\ SubSeq(s, Len(s) - Len(suffix) + 1, Len(s)) = suffix

\* str.startswith
StartsWith(s, prefix) ==
    /\ Len(s) >= Len(prefix)
    /\ SubSeq(s, 1, Len(prefix)) = prefix

\* s[:n]
Truncate(s, n) == IF Len(s) > n THEN SubSeq(s, 1, n) ELSE s

----------------------------------------------------------------------------
(* Session records                                                          *)

PLANNING_FILES == <<"task_plan.md", "progress.md", "findings.md">>

\* One element of a message.content list.  type "nondict" is an element that
\* is not a JSON object (a bare string, a number): calling .get on it raises
\* AttributeError.  For it, text holds the bare string.  file_path = "" is a
\* tool input without the file_path key.
TextItem(t) ==
    [type |-> "text", text |-> t, name |-> "", file_path |-> "", command |-> ""]
ToolUse(n, fp, cmd) ==
    [type |-> "tool_use", text |-> "", name |-> n, file_path |-> fp, command |-> cmd]
OtherItem(ty) ==
    [type |-> ty, text |-> "", name |-> "", file_path |-> "", command |-> ""]
NonDictItem(s) ==
    [type |-> "nondict", text |-> s, name |-> "", file_path |-> "", command |-> ""]

ToolMarkers == {"Write", "Edit"}

\* The pre-filter's test on the raw text of a line that a JSON serializer
\* wrote: the text holds "Write" or "Edit" in double quotes exactly when one
\* of its string values is Write or Edit.
RawHasMarker(text, items) ==
    \/ text \in ToolMarkers
    \/ \E i \in 1..Len(items) :
          items[i].name \in ToolMarkers \/ items[i].text \in ToolMarkers

\* json: "invalid"   json.loads raises JSONDecodeError
\*       "nonobject" json.loads returns a list, a string or a number
\*       "object"    json.loads returns a dict
\* ckind: message.content is a "str", a "list", or "other" (absent, null, ...)
ObjLine(ty, meta, ckind, text, items) ==
    [json |-> "object", marker |-> RawHasMarker(text, items), type |-> ty,
     isMeta |-> meta, ckind |-> ckind, text |-> text, items |-> items]
InvalidLine(marker) ==
    [json |-> "invalid", marker |-> marker, type |-> "", isMeta |-> FALSE,
     ckind |-> "other", text |-> "", items |-> <<>>]
NonObjectLine(marker) ==
    [json |-> "nonobject", marker |-> marker, type |-> "", isMeta |-> FALSE,
     ckind |-> "other", text |-> "", items |-> <<>>]

WritePlan     == ToolUse("Write", "/repo/task_plan.md", "")
EditProgress  == ToolUse("Edit", "docs/progress.md", "")
WriteFindings == ToolUse("Write", "findings.md", "")
WriteCode     == ToolUse("Write", "/repo/src/main.py", "")
ReadPlan      == ToolUse("Read", "/repo/task_plan.md", "")
BashLs        == ToolUse("Bash", "", "ls -la")

\* The files the scanner is run on: every sequence of at most MaxLines of
\* these lines.
ScanLines ==
    { ObjLine("assistant", FALSE, "list", "", <<WritePlan>>),
      ObjLine("assistant", FALSE, "list", "", <<TextItem("ok"), EditProgress>>),
      ObjLine("assistant", FALSE, "list", "", <<WritePlan, WriteFindings>>),
      ObjLine("assistant", FALSE, "list", "", <<WriteCode, ReadPlan>>),
      ObjLine("assistant", FALSE, "list", "", <<NonDictItem("Write"), WritePlan>>),
      ObjLine("assistant", TRUE, "list", "", <<EditProgress>>),
      ObjLine("assistant", FALSE, "str", "Write", <<>>),
      ObjLine("user", FALSE, "list", "", <<WritePlan>>),
      ObjLine("user", FALSE, "str", "please update the plan now", <<>>),
      InvalidLine(TRUE),
      NonObjectLine(TRUE),
      NonObjectLine(FALSE) }

\* A session file: its name, its modification time and its lines.
SessionFile(name, lines) == [name |-> name, mtime |-> 0, lines |-> lines]

NoFile == SessionFile("", <<>>)

FilesOver(lines) ==
    { SessionFile("3f2a9c10-77aa.jsonl", ls) :
        ls \in UNION { [1..n -> lines] : n \in 0..MaxLines } }

----------------------------------------------------------------------------
(* scan_for_planning_update                                                 *)

\* for pf in PLANNING_FILES: if file_path.endswith(pf): ...; break
RECURSIVE MatchPlanningFrom(_, _)
MatchPlanningFrom(file_path, i) ==
    IF i > Len(PLANNING_FILES) THEN "None"
    ELSE IF EndsWith(file_path, PLANNING_FILES[i]) THEN PLANNING_FILES[i]
    ELSE MatchPlanningFrom(file_path, i + 1)

MatchPlanning(file_path) == MatchPlanningFrom(file_path, 1)

\* The inner loop over the content items, from item i on, of line line_no.
\* st = [line, file, raised]; an item that is not a dict raises
\* AttributeError, which leaves the loop with what was recorded so far.
RECURSIVE ScanItems(_, _, _, _)
ScanItems(items, i, line_no, st) ==
    IF i > Len(items) THEN st
    ELSE LET item == items[i] IN
         IF item.type = "nondict" THEN [st EXCEPT !.raised = TRUE]
         ELSE IF item.type # "tool_use" THEN ScanItems(items, i + 1, line_no, st)
         ELSE IF item.name \notin {"Write", "Edit"}
              THEN ScanItems(items, i + 1, line_no, st)
         ELSE LET pf == MatchPlanning(item.file_path) IN
              IF pf # "None"
              THEN ScanItems(items, i + 1, line_no,
                             [st EXCEPT !.line = line_no, !.file = pf])
              ELSE ScanItems(items, i + 1, line_no, st)

\* The body of the loop over the lines, for one line.  raised = TRUE is an
\* exception other than json.JSONDecodeError: it is caught by the function's
\* outer "except Exception: pass", outside the loop.
ScanLine(line, line_no, st) ==
    IF ~line.marker THEN st
    ELSE IF line.json = "invalid" THEN st
    ELSE IF line.json = "nonobject" THEN [st EXCEPT !.raised = TRUE]
    ELSE IF line.type # "assistant" THEN st
    ELSE IF line.ckind # "list" THEN st
    ELSE ScanItems(line.items, 1, line_no, st)

ScanState == [line |-> last_update_line, file |-> last_update_file, raised |-> FALSE]

\* One iteration of "for line_num, line in enumerate(f)".
ScanStep ==
    /\ scan_pc = "loop"
    /\ scan_num < Len(scan_file.lines)
    /\ LET st == ScanLine(scan_file.lines[scan_num + 1], scan_num, ScanState) IN
         /\ last_update_line' = st.line
         /\ last_update_file' = st.file
         /\ scan_pc' = IF st.raised THEN "returned" ELSE "loop"
         /\ scan_num' = IF st.raised THEN scan_num ELSE scan_num + 1
    /\ UNCHANGED <<scan_file, extVars, mainVars, syncVars, buildVars>>

\* The loop is exhausted: return last_update_line, last_update_file.
ScanReturn ==
    /\ scan_pc = "loop"
    /\ scan_num = Len(scan_file.lines)
    /\ scan_pc' = "returned"
    /\ UNCHANGED <<scan_file, scan_num, last_update_line, last_update_file,
                   extVars, mainVars, syncVars, buildVars>>

----------------------------------------------------------------------------
(* extract_messages_from_session                                            *)

MinUserLen == 20
MaxContent == 600
MaxCommand == 80
SessionIdLen == 8

SystemPrefixes == {"<local-command", "<command-", "<task-notification"}

\* Path.stem: the name without its last suffix.
RECURSIVE LastDot(_, _)
LastDot(name, i) ==
    IF i <= 1 THEN 0
    ELSE IF SubSeq(name, i, i) = "." THEN i
    ELSE LastDot(name, i - 1)

Stem(name) ==
    LET d == LastDot(name, Len(name)) IN
      IF d = 0 THEN name ELSE SubSeq(name, 1, d - 1)

\* session_file.stem[:8]
SessionId(file) == Truncate(Stem(file.name), SessionIdLen)

\* A user record's content list: the text of the first dict item of type
\* text, '' when there is none (the for/else).
RECURSIVE FirstText(_, _)
FirstText(items, i) ==
    IF i > Len(items) THEN ""
    ELSE IF items[i].type = "text" THEN items[i].text
    ELSE FirstText(items, i + 1)

\* f"Edit: {file_path}", f"Write: {file_path}", f"Bash: {cmd}", ...
ToolDescriptor(item) ==
    LET fp == IF item.file_path = "" THEN "unknown" ELSE item.file_path IN
      IF item.name = "Edit" THEN "Edit: " \o fp
      ELSE IF item.name = "Write" THEN "Write: " \o fp
      ELSE IF item.name = "Bash" THEN "Bash: " \o Truncate(item.command, MaxCommand)
      ELSE IF item.name = "AskUserQuestion" THEN "AskUserQuestion"
      ELSE item.name

\* An assistant record's content list, from item i on.
\* acc = [text, tools, raised]; item.get on an item that is not a dict raises.
RECURSIVE AssistantItems(_, _, _)
AssistantItems(items, i, acc) ==
    IF i > Len(items) THEN acc
    ELSE LET item == items[i] IN
         IF item.type = "nondict" THEN [acc EXCEPT !.raised = TRUE]
         ELSE IF item.type = "text"
              THEN AssistantItems(items, i + 1, [acc EXCEPT !.text = item.text])
         ELSE IF item.type = "tool_use"
              THEN AssistantItems(items, i + 1,
                       [acc EXCEPT !.tools = Append(@, ToolDescriptor(item))])
         ELSE AssistantItems(items, i + 1, acc)

\* A user message has no tools key; msg.get('tools') is falsy for it, as for
\* the empty list.
CatchupMessage(role, content, tools, line_no, file) ==
    [role |-> role, content |-> content, tools |-> tools, line |-> line_no,
     session |-> SessionId(file)]

\* The body of the loop over the lines, for one line after the after_line
\* test: [msgs, raised], msgs the messages appended to result (none or one).
ExtractLine(line, line_no, file) ==
    IF line.json = "invalid" THEN [msgs |-> <<>>, raised |-> FALSE]
    ELSE IF line.json = "nonobject" THEN [msgs |-> <<>>, raised |-> TRUE]
    ELSE IF line.type = "user" /\ ~line.isMeta THEN
        LET content == IF line.ckind = "list" THEN FirstText(line.items, 1)
                       ELSE IF line.ckind = "str" THEN line.text
                       ELSE ""
        IN IF content = "" THEN [msgs |-> <<>>, raised |-> FALSE]
           ELSE IF \E p \in SystemPrefixes : StartsWith(content, p)
                THEN [msgs |-> <<>>, raised |-> FALSE]
           ELSE IF Len(content) > MinUserLen
                THEN [msgs |-> <<CatchupMessage("user", content, <<>>, line_no, file)>>,
                      raised |-> FALSE]
           ELSE [msgs |-> <<>>, raised |-> FALSE]
    ELSE IF line.type = "assistant" THEN
        LET acc == IF line.ckind = "str"
                   THEN [text |-> line.text, tools |-> <<>>, raised |-> FALSE]
                   ELSE IF line.ckind = "list"
                   THEN AssistantItems(line.items, 1,
                            [text |-> "", tools |-> <<>>, raised |-> FALSE])
                   ELSE [text |-> "", tools |-> <<>>, raised |-> FALSE]
        IN IF acc.raised THEN [msgs |-> <<>>, raised |-> TRUE]
           ELSE IF acc.text # "" \/ acc.tools # <<>>
                THEN [msgs |-> <<CatchupMessage("assistant",
                                     Truncate(acc.text, MaxContent),
                                     acc.tools, line_no, file)>>,
                      raised |-> FALSE]
           ELSE [msgs |-> <<>>, raised |-> FALSE]
    ELSE [msgs |-> <<>>, raised |-> FALSE]

\* One iteration of "for line_num, line in enumerate(f)".  An exception other
\* than json.JSONDecodeError is caught by the outer "except Exception: pass",
\* outside the loop: the function returns what result holds.
ExtStep ==
    /\ ext_pc = "loop"
    /\ ext_num < Len(ext_file.lines)
    /\ IF after_line >= 0 /\ ext_num <= after_line
       THEN /\ ext_num' = ext_num + 1
            /\ UNCHANGED <<result, ext_pc>>
       ELSE LET r == ExtractLine(ext_file.lines[ext_num + 1], ext_num, ext_file) IN
            /\ result' = result \o r.msgs
            /\ ext_pc' = IF r.raised THEN "returned" ELSE "loop"
            /\ ext_num' = IF r.raised THEN ext_num ELSE ext_num + 1
    /\ UNCHANGED <<ext_file, after_line, scanVars, mainVars, syncVars, buildVars>>

\* The loop is exhausted: return result.
ExtReturn ==
    /\ ext_pc = "loop"
    /\ ext_num = Len(ext_file.lines)
    /\ ext_pc' = "returned"
    /\ UNCHANGED <<ext_file, after_line, ext_num, result, scanVars, mainVars, syncVars, buildVars>>

Text20 == "aaaaaaaaaaaaaaaaaaaa"
Text21 == "aaaaaaaaaaaaaaaaaaaaa"

\* The files the extractor is run on: every sequence of at most MaxLines of
\* these lines.
ExtLines ==
    { ObjLine("user", FALSE, "str", Text21, <<>>),
      ObjLine("user", FALSE, "str", Text20, <<>>),
      ObjLine("user", FALSE, "str", "<command-name>/clear</command-name>", <<>>),
      ObjLine("user", FALSE, "list", "",
              <<OtherItem("tool_result"), TextItem("continue with the next phase"),
                TextItem("no")>>),
      ObjLine("user", FALSE, "list", "", <<NonDictItem("x"), TextItem(Text20)>>),
      ObjLine("user", TRUE, "str", "Caveat: generated by a local command", <<>>),
      ObjLine("assistant", FALSE, "str", "Done.", <<>>),
      ObjLine("assistant", FALSE, "list", "", <<BashLs, EditProgress>>),
      ObjLine("assistant", FALSE, "list", "", <<TextItem("one"), TextItem("two")>>),
      ObjLine("assistant", FALSE, "list", "", <<TextItem("hi"), TextItem("")>>),
      ObjLine("assistant", FALSE, "list", "", <<>>),
      ObjLine("assistant", FALSE, "list", "", <<TextItem("hello"), NonDictItem("x")>>),
      ObjLine("system", FALSE, "str", "compact boundary marker text", <<>>),
      InvalidLine(FALSE),
      NonObjectLine(FALSE) }

AfterLines == -1..1

----------------------------------------------------------------------------
(* The two functions as main calls them                                     *)

RECURSIVE ScanFrom(_, _, _)
ScanFrom(file, n, st) ==
    IF n >= Len(file.lines) THEN st
    ELSE LET st2 == ScanLine(file.lines[n + 1], n, st) IN
         IF st2.raised THEN st2 ELSE ScanFrom(file, n + 1, st2)

\* Returns (line_number, filename), (-1, None) when nothing was recorded.
scan_for_planning_update(file) ==
    LET st == ScanFrom(file, 0, [line |-> -1, file |-> "None", raised |-> FALSE])
    IN [line |-> st.line, file |-> st.file]

RECURSIVE ExtractFrom(_, _, _, _)
ExtractFrom(file, after, n, res) ==
    IF n >= Len(file.lines) THEN res
    ELSE IF after >= 0 /\ n <= after THEN ExtractFrom(file, after, n + 1, res)
    ELSE LET r == ExtractLine(file.lines[n + 1], n, file) IN
         IF r.raised THEN res \o r.msgs
         ELSE ExtractFrom(file, after, n + 1, res \o r.msgs)

extract_messages_from_session(file, after) == ExtractFrom(file, after, 0, <<>>)

----------------------------------------------------------------------------
(* main of session-catchup.py                                               *)

MAX_MESSAGES == 100
MaxShownChars == 300
MaxShownTools == 4

\* sorted(..., key=st_mtime, reverse=True); the files of a directory have
\* distinct modification times here.
RECURSIVE SortedNewestFirst(_)
SortedNewestFirst(files) ==
    IF files = {} THEN <<>>
    ELSE LET newest == CHOOSE f \in files : \A g \in files : g.mtime <= f.mtime
         IN <<newest>> \o SortedNewestFirst(files \ {newest})

\* glob('*.jsonl'), without the names that start with agent-.
get_sessions_sorted(dir) ==
    LET found == { f \in dir.files : EndsWith(f.name, ".jsonl") }
        main_sessions == { f \in found : ~StartsWith(f.name, "agent-") }
    IN SortedNewestFirst(main_sessions)

Reverse(seq) == [i \in 1..Len(seq) |-> seq[Len(seq) + 1 - i]]

\* seq[-n:]
LastN(seq, n) == IF Len(seq) > n THEN SubSeq(seq, Len(seq) - n + 1, Len(seq)) ELSE seq

NoOutput ==
    [kind |-> "none", update_file |-> "None", session |-> "",
     sessions_covered |-> 0, unsynced |-> 0, shown |-> <<>>]

OpenCodeNotice == [NoOutput EXCEPT !.kind = "notice"]

\* What the report prints of one message: content[:300], tools[:4].
ShownMessage(msg) ==
    [role |-> msg.role, session |-> msg.session,
     content |-> Truncate(msg.content, MaxShownChars),
     tools |-> SubSeq(msg.tools, 1, Min(Len(msg.tools), MaxShownTools))]

Report ==
    [kind |-> "report", update_file |-> update_file,
     session |-> SessionId(update_session),
     sessions_covered |-> update_session_idx + 1,
     unsynced |-> Len(all_messages),
     shown |-> LET last == LastN(all_messages, MAX_MESSAGES)
               IN [k \in 1..Len(last) |-> ShownMessage(last[k])]]

previous_sessions == Tail(sessions)
intermediate_sessions == SubSeq(previous_sessions, 1, update_session_idx)

\* Lines 245-265: the OpenCode notice, the project directory, the sessions.
MainStart ==
    /\ pc = "start"
    /\ IF ide = "opencode"
       THEN /\ output' = OpenCodeNotice
            /\ pc' = "done"
            /\ UNCHANGED sessions
       ELSE IF ~project_dir.exists
       THEN /\ pc' = "done"
            /\ UNCHANGED <<sessions, output>>
       ELSE /\ sessions' = get_sessions_sorted(project_dir)
            /\ pc' = IF Len(sessions') < 2 THEN "done" ELSE "scan"
            /\ UNCHANGED output
    /\ UNCHANGED <<ide, project_dir, idx, update_session, update_line, update_file,
                   update_session_idx, all_messages, inter_idx>>
    /\ UNCHANGED <<scanVars, extVars, syncVars, buildVars>>

\* Lines 277-284: one iteration of the loop over previous_sessions.
MainScan ==
    /\ pc = "scan"
    /\ idx < Len(previous_sessions)
    /\ LET session == previous_sessions[idx + 1]
           r == scan_for_planning_update(session)
       IN IF r.line >= 0
          THEN /\ update_session' = session
               /\ update_line' = r.line
               /\ update_file' = r.file
               /\ update_session_idx' = idx
               /\ pc' = "extract"
               /\ UNCHANGED idx
          ELSE /\ idx' = idx + 1
               /\ UNCHANGED <<update_session, update_line, update_file,
                              update_session_idx, pc>>
    /\ UNCHANGED <<ide, project_dir, sessions, all_messages, inter_idx, output>>
    /\ UNCHANGED <<scanVars, extVars, syncVars, buildVars>>

\* Lines 286-288: no previous session has a planning update.
MainNoUpdate ==
    /\ pc = "scan"
    /\ idx = Len(previous_sessions)
    /\ pc' = "done"
    /\ UNCHANGED <<ide, project_dir, sessions, idx, update_session, update_line,
                   update_file, update_session_idx, all_messages, inter_idx, output>>
    /\ UNCHANGED <<scanVars, extVars, syncVars, buildVars>>

\* Lines 291-295: the messages of the update session after the update line.
MainExtractUpdate ==
    /\ pc = "extract"
    /\ all_messages' = all_messages
                         \o extract_messages_from_session(update_session, update_line)
    /\ inter_idx' = 0
    /\ pc' = "intermediate"
    /\ UNCHANGED <<ide, project_dir, sessions, idx, update_session, update_line,
                   update_file, update_session_idx, output>>
    /\ UNCHANGED <<scanVars, extVars, syncVars, buildVars>>

\* Lines 299-304: one iteration of the loop over reversed(intermediate_sessions).
MainIntermediate ==
    /\ pc = "intermediate"
    /\ inter_idx < Len(intermediate_sessions)
    /\ LET session == Reverse(intermediate_sessions)[inter_idx + 1]
       IN all_messages' = all_messages \o extract_messages_from_session(session, -1)
    /\ inter_idx' = inter_idx + 1
    /\ UNCHANGED <<ide, project_dir, pc, sessions, idx, update_session, update_line,
                   update_file, update_session_idx, output>>
    /\ UNCHANGED <<scanVars, extVars, syncVars, buildVars>>

\* Lines 306-348: nothing when there is no message, the report otherwise.
MainReport ==
    /\ pc = "intermediate"
    /\ inter_idx = Len(intermediate_sessions)
    /\ output' = IF all_messages = <<>> THEN output ELSE Report
    /\ pc' = "done"
    /\ UNCHANGED <<ide, project_dir, sessions, idx, update_session, update_line,
                   update_file, update_session_idx, all_messages, inter_idx>>
    /\ UNCHANGED <<scanVars, extVars, syncVars, buildVars>>

----------------------------------------------------------------------------
(* The project directories main is run on                                   *)

MaxSessions == 3

UserLine(text) == ObjLine("user", FALSE, "str", text, <<>>)
AssistantLine(text) == ObjLine("assistant", FALSE, "str", text, <<>>)
PlanLine == ObjLine("assistant", FALSE, "list", "", <<WritePlan>>)
ProgressLine == ObjLine("assistant", FALSE, "list", "", <<EditProgress>>)

Ask1 == UserLine("please add the login page")
Ask2 == UserLine("now write the tests for it")
Ans1 == AssistantLine("Added the login page.")
Hi   == UserLine("hi")

\* The contents a session file may have.  ExampleA has its planning update at
\* line 5 and messages at lines 6-8; ExampleB has messages at lines 1-3.
ExampleA == <<Hi, Hi, InvalidLine(FALSE), Hi, Hi, PlanLine, Ask1, Ans1, Ask2>>
ExampleB == <<Hi, Ask2, Ans1, Ask1>>
ExampleC == <<Ask1>>

Corpus ==
    { <<>>,
      <<Ask1, Ans1>>,
      <<Ask1, PlanLine, Ask2, Ans1>>,
      <<ProgressLine, Ask1, PlanLine>>,
      <<NonObjectLine(TRUE), PlanLine, Ask2>>,
      <<Ask1, NonObjectLine(FALSE), Ask2>>,
      <<Ask1, InvalidLine(TRUE), Ans1>>,
      ExampleA, ExampleB, ExampleC }

Digits == <<"1", "2", "3", "4", "5", "6", "7", "8", "9">>

\* The k-th session file: modified at time k.
SessionNamed(k, lines) ==
    [name |-> Digits[k] \o "f2a9c10-77aa.jsonl", mtime |-> k, lines |-> lines]

\* Files of the directory that are no main session, both newer than any.
OtherFiles ==
    { [name |-> "agent-0001.jsonl", mtime |-> MaxSessions + 2,
       lines |-> <<Ask1, PlanLine, Ask2>>],
      [name |-> "notes.txt", mtime |-> MaxSessions + 3, lines |-> <<PlanLine>>] }

ProjectDirs ==
    { [exists |-> FALSE, files |-> {}] } \cup
    UNION { { [exists |-> TRUE,
               files |-> { SessionNamed(k, c[k]) : k \in 1..n } \cup extra] :
                c \in [1..n -> Corpus], extra \in {{}, OtherFiles} } :
            n \in 0..MaxSessions }

IdeKinds == {"claude-code", "opencode", "unknown"}

----------------------------------------------------------------------------
(* sync-ide-folders.py: paths, the manifests                                *)

\* Paths are strings with "/" between the components.

StripSlash(p) ==
    IF Len(p) > 1 /\ SubSeq(p, Len(p), Len(p)) = "/" THEN SubSeq(p, 1, Len(p) - 1)
    ELSE p

\* Path(a) / b
Join(a, b) == StripSlash(a) \o "/" \o StripSlash(b)

RECURSIVE LastSlash(_, _)
LastSlash(p, i) ==
    IF i < 1 THEN 0
    ELSE IF SubSeq(p, i, i) = "/" THEN i
    ELSE LastSlash(p, i - 1)

\* Path(p).name
PathName(p) == SubSeq(p, LastSlash(p, Len(p)) + 1, Len(p))

\* The directories above p: what dst.parent.mkdir(parents=True) makes exist.
Ancestors(p) == { SubSeq(p, 1, i - 1) : i \in { j \in 2..Len(p) : SubSeq(p, j, j) = "/" } }

Inside(p, dir) == StartsWith(p, dir \o "/")

\* s.split(sep)[0]
RECURSIVE BeforeFirst(_, _, _)
BeforeFirst(s, sep, i) ==
    IF i + Len(sep) - 1 > Len(s) THEN s
    ELSE IF SubSeq(s, i, i + Len(sep) - 1) = sep THEN SubSeq(s, 1, i - 1)
    ELSE BeforeFirst(s, sep, i + 1)

\* The order of Python's str comparison on the characters the paths use.
AsciiOrder == "-./0123456789_abcdefghijklmnopqrstuvwxyz"

CharRank(c) == CHOOSE i \in 1..Len(AsciiOrder) : SubSeq(AsciiOrder, i, i) = c

RECURSIVE StrLessFrom(_, _, _)
StrLessFrom(a, b, i) ==
    IF i > Len(b) THEN FALSE
    ELSE IF i > Len(a) THEN TRUE
    ELSE LET ca == CharRank(SubSeq(a, i, i))
             cb == CharRank(SubSeq(b, i, i))
         IN IF ca # cb THEN ca < cb ELSE StrLessFrom(a, b, i + 1)

StrLess(a, b) == StrLessFrom(a, b, 1)

\* sorted(...) of a set of strings
RECURSIVE SortedStrings(_)
SortedStrings(S) ==
    IF S = {} THEN <<>>
    ELSE LET least == CHOOSE x \in S : \A y \in S \ {x} : StrLess(x, y)
         IN <<least>> \o SortedStrings(S \ {least})

CANONICAL == "skills/planning-with-files"

TEMPLATES == <<"templates/findings.md", "templates/progress.md", "templates/task_plan.md">>

REFERENCES == <<"examples.md", "reference.md">>

SCRIPTS == <<"scripts/check-complete.sh", "scripts/check-complete.ps1",
             "scripts/init-session.sh", "scripts/init-session.ps1",
             "scripts/session-catchup.py">>

\* A dict built by assignments made in order: a later assignment to a key
\* replaces the earlier one.  pairs is the sequence of <<key, value>>.
DictOf(pairs) ==
    [k \in { pairs[i][1] : i \in 1..Len(pairs) } |->
        pairs[SetMax({ i \in 1..Len(pairs) : pairs[i][1] = k })][2]]

\* for tdir in tdirs: for t in TEMPLATES: <<key(t, tdir), b / tdir / name(t)>>
TemplatePairs(b, tdirs, extra) ==
    [i \in 1..(Len(tdirs) * Len(TEMPLATES)) |->
        LET tdir == tdirs[((i - 1) \div Len(TEMPLATES)) + 1]
            t == TEMPLATES[((i - 1) % Len(TEMPLATES)) + 1]
        IN << IF extra THEN t \o "__extra_" \o tdir ELSE t,
              Join(Join(b, tdir), PathName(t)) >>]

\* for r in REFERENCES: flat at the root, subdir under references/, else none
ReferencePairs(b, ref_style) ==
    IF ref_style = "flat"
    THEN [i \in 1..Len(REFERENCES) |-> <<REFERENCES[i], Join(b, REFERENCES[i])>>]
    ELSE IF ref_style = "subdir"
    THEN [i \in 1..Len(REFERENCES) |->
             <<REFERENCES[i], Join(Join(b, "references"), REFERENCES[i])>>]
    ELSE <<>>

\* for s in SCRIPTS
ScriptPairs(b, include_scripts) ==
    IF include_scripts
    THEN [i \in 1..Len(SCRIPTS) |-> <<SCRIPTS[i], Join(b, SCRIPTS[i])>>]
    ELSE <<>>

DirsGiven(tdirs) == [given |-> TRUE, dirs |-> tdirs]
DirsNone == [given |-> FALSE, dirs |-> <<>>]

\* _build_manifest placing the files of the extra template directories in
\* templates/ whatever the directory asked for.
_build_manifest_flat(base, ref_style, template_dirs, include_scripts, extra_template_dirs) ==
    LET tdirs == IF template_dirs.given THEN template_dirs.dirs ELSE <<"templates/">>
        extras == TemplatePairs(base, extra_template_dirs, TRUE)
    IN DictOf(TemplatePairs(base, tdirs, FALSE)
              \o [i \in 1..Len(extras) |->
                    <<extras[i][1],
                      Join(Join(base, "templates/"), PathName(extras[i][2]))>>]
              \o ReferencePairs(base, ref_style)
              \o ScriptPairs(base, include_scripts))

\* template_dirs is DirsNone for Python's None, DirsGiven(list) otherwise;
\* extra_template_dirs is a list, empty for None.
_build_manifest(base, ref_style, template_dirs, include_scripts, extra_template_dirs) ==
    LET tdirs == IF template_dirs.given THEN template_dirs.dirs ELSE <<"templates/">>
    IN DictOf(TemplatePairs(base, tdirs, FALSE)
              \o TemplatePairs(base, extra_template_dirs, TRUE)
              \o ReferencePairs(base, ref_style)
              \o ScriptPairs(base, include_scripts))

\* A call of _build_manifest: the function runs on build_args and returns.
BuildManifest ==
    /\ build_pc = "called"
    /\ manifest' = _build_manifest(build_args.base, build_args.ref_style,
                                   build_args.template_dirs, build_args.include_scripts,
                                   build_args.extra_template_dirs)
    /\ build_pc' = "returned"
    /\ UNCHANGED <<build_args, scanVars, extVars, mainVars, syncVars>>

KiroManifest ==
    DictOf(<< <<"scripts/check-complete.sh", ".kiro/scripts/check-complete.sh">>,
              <<"scripts/check-complete.ps1", ".kiro/scripts/check-complete.ps1">>,
              <<"scripts/init-session.sh", ".kiro/scripts/init-session.sh">>,
              <<"scripts/init-session.ps1", ".kiro/scripts/init-session.ps1">> >>)

IdeNames == {".cursor", ".gemini", ".codex", ".openclaw", ".kilocode", ".adal", ".pi",
             ".continue", ".codebuddy", ".factory", ".agent", ".opencode", ".kiro"}

IDE_MANIFESTS ==
    [name \in IdeNames |->
       LET base == name \o "/skills/planning-with-files" IN
       CASE name = ".cursor"    -> _build_manifest(base, "flat", DirsNone, FALSE, <<>>)
         [] name = ".gemini"    -> _build_manifest(base, "subdir", DirsNone, TRUE, <<>>)
         [] name = ".codex"     -> _build_manifest(base, "subdir", DirsNone, TRUE,
                                                   <<"assets/templates/">>)
         [] name = ".openclaw"  -> _build_manifest(base, "subdir", DirsNone, TRUE, <<>>)
         [] name = ".kilocode"  -> _build_manifest(base, "flat", DirsNone, FALSE, <<>>)
         [] name = ".adal"      -> _build_manifest(base, "subdir", DirsNone, TRUE, <<>>)
         [] name = ".pi"        -> _build_manifest(base, "flat", DirsNone, TRUE, <<>>)
         [] name = ".continue"  -> _build_manifest(base, "flat", DirsGiven(<<>>), TRUE, <<>>)
         [] name = ".codebuddy" -> _build_manifest(base, "subdir", DirsNone, TRUE,
                                                   <<"assets/templates/">>)
         [] name = ".factory"   -> _build_manifest(base, "skip", DirsNone, FALSE, <<>>)
         [] name = ".agent"     -> _build_manifest(base, "skip", DirsGiven(<<>>), FALSE, <<>>)
         [] name = ".opencode"  -> _build_manifest(base, "flat", DirsNone, FALSE, <<>>)
         [] name = ".kiro"      -> KiroManifest]

\* sorted(IDE_MANIFESTS.items()) and, for each, sorted(manifest.items())
SortedIdes == SortedStrings(DOMAIN IDE_MANIFESTS)

SortedItems ==
    [name \in DOMAIN IDE_MANIFESTS |->
       LET keys == SortedStrings(DOMAIN IDE_MANIFESTS[name])
       IN [i \in 1..Len(keys) |-> <<keys[i], IDE_MANIFESTS[name][keys[i]]>>]]

----------------------------------------------------------------------------
(* sync-ide-folders.py: file_hash, sync_file, main                          *)

\* A filesystem: f maps the path of every regular file to its content.

\* SHA-256 of a content; different contents have different digests.
Sha256(content) == "sha256:" \o content

\* The digest of the file at path, None when there is no file.
file_hash(f, path) == IF path \in DOMAIN f THEN Sha256(f[path]) ELSE "None"

\* shutil.copy2(s, d)
CopyFile(f, s, d) == [p \in DOMAIN f \cup {d} |-> IF p = d THEN f[s] ELSE f[p]]

\* sync_file reporting every copy as an update.
sync_file_no_created(f, ds, s, d, dry) ==
    IF s \notin DOMAIN f
    THEN [action |-> "missing_src", fs |-> f, dirs |-> ds, wrote |-> {}]
    ELSE IF file_hash(f, s) = file_hash(f, d)
    THEN [action |-> "skipped", fs |-> f, dirs |-> ds, wrote |-> {}]
    ELSE IF ~dry
    THEN [action |-> "updated", fs |-> CopyFile(f, s, d),
          dirs |-> ds \cup Ancestors(d), wrote |-> {d}]
    ELSE [action |-> "updated", fs |-> f, dirs |-> ds, wrote |-> {}]

\* sync_file copying whatever dry_run says.
sync_file_ignoring_dry_run(f, ds, s, d, dry) ==
    IF s \notin DOMAIN f
    THEN [action |-> "missing_src", fs |-> f, dirs |-> ds, wrote |-> {}]
    ELSE IF file_hash(f, s) = file_hash(f, d)
    THEN [action |-> "skipped", fs |-> f, dirs |-> ds, wrote |-> {}]
    ELSE [action |-> IF file_hash(f, d) = "None" THEN "created" ELSE "updated",
          fs |-> CopyFile(f, s, d), dirs |-> ds \cup Ancestors(d), wrote |-> {d}]

\* sync_file updating in the wrong direction: copy2(dst, src).
sync_file_reversed(f, ds, s, d, dry) ==
    IF s \notin DOMAIN f
    THEN [action |-> "missing_src", fs |-> f, dirs |-> ds, wrote |-> {}]
    ELSE IF file_hash(f, s) = file_hash(f, d)
    THEN [action |-> "skipped", fs |-> f, dirs |-> ds, wrote |-> {}]
    ELSE IF dry
    THEN [action |-> IF file_hash(f, d) = "None" THEN "created" ELSE "updated",
          fs |-> f, dirs |-> ds, wrote |-> {}]
    ELSE IF file_hash(f, d) = "None"
    THEN [action |-> "created", fs |-> CopyFile(f, s, d),
          dirs |-> ds \cup Ancestors(d), wrote |-> {d}]
    ELSE [action |-> "updated", fs |-> CopyFile(f, d, s),
          dirs |-> ds \cup Ancestors(s), wrote |-> {s}]

\* sync_file without the copy: the action is returned, nothing is written.
sync_file_no_copy(f, ds, s, d, dry) ==
    IF s \notin DOMAIN f
    THEN [action |-> "missing_src", fs |-> f, dirs |-> ds, wrote |-> {}]
    ELSE IF file_hash(f, s) = file_hash(f, d)
    THEN [action |-> "skipped", fs |-> f, dirs |-> ds, wrote |-> {}]
    ELSE [action |-> IF file_hash(f, d) = "None" THEN "created" ELSE "updated",
          fs |-> f, dirs |-> ds, wrote |-> {}]

\* sync_file on filesystem f with directories ds: the action returned, the
\* filesystem and the directories it leaves, the file it wrote.
sync_file(f, ds, s, d, dry) ==
    IF s \notin DOMAIN f
    THEN [action |-> "missing_src", fs |-> f, dirs |-> ds, wrote |-> {}]
    ELSE LET src_hash == file_hash(f, s)
             dst_hash == file_hash(f, d)
         IN IF src_hash = dst_hash
            THEN [action |-> "skipped", fs |-> f, dirs |-> ds, wrote |-> {}]
            ELSE LET act == IF dst_hash = "None" THEN "created" ELSE "updated"
                 IN IF ~dry
                    THEN [action |-> act, fs |-> CopyFile(f, s, d),
                          dirs |-> ds \cup Ancestors(d), wrote |-> {d}]
                    ELSE [action |-> act, fs |-> f, dirs |-> ds, wrote |-> {}]

ZeroStats == [updated |-> 0, created |-> 0, skipped |-> 0, missing_src |-> 0, drift |-> 0]

ide_name == SortedIdes[ide_idx + 1]
manifest_items == SortedItems[ide_name]

\* Lines 230-242: the flags are read; without the canonical tree, exit 1.
SyncStart ==
    /\ sync_pc = "start"
    /\ IF CANONICAL \notin dirs
       THEN /\ exit_code' = 1
            /\ sync_pc' = "exited"
            /\ UNCHANGED stats
       ELSE /\ stats' = ZeroStats
            /\ sync_pc' = "ide"
            /\ UNCHANGED exit_code
    /\ UNCHANGED <<dry_run, verify, dirs, fs, fs0, dirs0, ide_idx, entry_idx, src, dst,
                   action, ide_changes, printed, written>>
    /\ UNCHANGED <<scanVars, extVars, mainVars, buildVars, run, stats1>>

\* Lines 244-248: an IDE whose base directory does not exist is skipped.
SyncSkipIde ==
    /\ sync_pc = "ide"
    /\ ide_idx < Len(SortedIdes)
    /\ ide_name \notin dirs
    /\ ide_idx' = ide_idx + 1
    /\ UNCHANGED <<dry_run, verify, dirs, fs, fs0, dirs0, sync_pc, entry_idx, src, dst,
                   action, stats, ide_changes, printed, written, exit_code>>
    /\ UNCHANGED <<scanVars, extVars, mainVars, buildVars, run, stats1>>

\* Lines 250-251: the IDE's folder is entered.
SyncEnterIde ==
    /\ sync_pc = "ide"
    /\ ide_idx < Len(SortedIdes)
    /\ ide_name \in dirs
    /\ printed' = Append(printed, <<"IDE", ide_name>>)
    /\ ide_changes' = 0
    /\ entry_idx' = 0
    /\ sync_pc' = "entry"
    /\ UNCHANGED <<dry_run, verify, dirs, fs, fs0, dirs0, ide_idx, src, dst, action, stats,
                   written, exit_code>>
    /\ UNCHANGED <<scanVars, extVars, mainVars, buildVars, run, stats1>>

\* Lines 253-257: src and dst of the manifest entry at entry_idx.
EntrySrc == Join(CANONICAL, BeforeFirst(manifest_items[entry_idx + 1][1], "__extra_", 1))
EntryDst == manifest_items[entry_idx + 1][2]

\* VerifyOutcome without the branch for a destination that does not exist.
VerifyOutcome_no_missing(src_hash, dst_hash) ==
    IF src_hash # "None" /\ dst_hash # "None" /\ src_hash # dst_hash THEN "DRIFT"
    ELSE "OK"

\* Lines 263-270: what verify mode reports of one entry, "OK" for nothing.
VerifyOutcome(src_hash, dst_hash) ==
    IF src_hash # "None" /\ dst_hash # "None" /\ src_hash # dst_hash THEN "DRIFT"
    ELSE IF src_hash # "None" /\ dst_hash = "None" THEN "MISSING"
    ELSE "OK"

\* Lines 259-270: one manifest entry in verify mode.
SyncVerifyEntry ==
    /\ sync_pc = "entry"
    /\ entry_idx < Len(manifest_items)
    /\ verify
    /\ src' = EntrySrc
    /\ dst' = EntryDst
    /\ LET outcome == VerifyOutcome(file_hash(fs, EntrySrc), file_hash(fs, EntryDst))
       IN IF outcome # "OK"
          THEN /\ printed' = Append(printed, <<outcome, EntryDst>>)
               /\ stats' = [stats EXCEPT !.drift = @ + 1]
               /\ ide_changes' = ide_changes + 1
          ELSE UNCHANGED <<printed, stats, ide_changes>>
    /\ entry_idx' = entry_idx + 1
    /\ UNCHANGED <<dry_run, verify, dirs, fs, fs0, dirs0, sync_pc, ide_idx, action, written,
                   exit_code>>
    /\ UNCHANGED <<scanVars, extVars, mainVars, buildVars, run, stats1>>

\* Lines 271-276: one manifest entry in normal or dry-run mode.
SyncEntry ==
    /\ sync_pc = "entry"
    /\ entry_idx < Len(manifest_items)
    /\ ~verify
    /\ src' = EntrySrc
    /\ dst' = EntryDst
    /\ LET r == sync_file(fs, dirs, EntrySrc, EntryDst, dry_run) IN
         /\ action' = r.action
         /\ fs' = r.fs
         /\ dirs' = r.dirs
         /\ written' = written \cup r.wrote
         /\ stats' = [stats EXCEPT ![r.action] = @ + 1]
         /\ IF r.action \in {"updated", "created"}
            THEN /\ printed' = Append(printed,
                                 <<IF r.action = "updated" THEN "UPDATED" ELSE "CREATED",
                                   EntryDst>>)
                 /\ ide_changes' = ide_changes + 1
            ELSE UNCHANGED <<printed, ide_changes>>
    /\ entry_idx' = entry_idx + 1
    /\ UNCHANGED <<dry_run, verify, fs0, dirs0, sync_pc, ide_idx, exit_code>>
    /\ UNCHANGED <<scanVars, extVars, mainVars, buildVars, run, stats1>>

\* Lines 278-279: the end of the IDE's manifest.
SyncEndIde ==
    /\ sync_pc = "entry"
    /\ entry_idx = Len(manifest_items)
    /\ printed' = IF ide_changes = 0 THEN Append(printed, <<"UPTODATE", ide_name>>)
                  ELSE printed
    /\ ide_idx' = ide_idx + 1
    /\ sync_pc' = "ide"
    /\ UNCHANGED <<dry_run, verify, dirs, fs, fs0, dirs0, entry_idx, src, dst, action, stats,
                   ide_changes, written, exit_code>>
    /\ UNCHANGED <<scanVars, extVars, mainVars, buildVars, run, stats1>>

\* Lines 281-300: the summary; verify exits 1 on drift and 0 otherwise, the
\* other modes return from main, which ends the process with 0.
SyncSummary ==
    /\ sync_pc = "ide"
    /\ ide_idx = Len(SortedIdes)
    /\ exit_code' = IF verify /\ stats.drift > 0 THEN 1 ELSE 0
    /\ sync_pc' = "exited"
    /\ UNCHANGED <<dry_run, verify, dirs, fs, fs0, dirs0, ide_idx, entry_idx, src, dst,
                   action, stats, ide_changes, printed, written>>
    /\ UNCHANGED <<scanVars, extVars, mainVars, buildVars, run, stats1>>

\* Lines 302-303: the tool is started again, in normal or verify mode, on
\* the filesystem a normal run that returned from main has left.
SyncRerun ==
    /\ sync_pc = "exited"
    /\ run = 1
    /\ ~dry_run /\ ~verify
    /\ exit_code = 0
    /\ run' = 2
    /\ stats1' = stats
    /\ verify' \in BOOLEAN
    /\ fs0' = fs
    /\ dirs0' = dirs
    /\ sync_pc' = "start"
    /\ ide_idx' = 0 /\ entry_idx' = 0 /\ src' = "" /\ dst' = "" /\ action' = ""
    /\ stats' = ZeroStats /\ ide_changes' = 0 /\ printed' = <<>>
    /\ written' = {} /\ exit_code' = -1
    /\ UNCHANGED <<dry_run, dirs, fs>>
    /\ UNCHANGED <<scanVars, extVars, mainVars, buildVars>>

----------------------------------------------------------------------------
(* The filesystems the sync tool is run on                                  *)

\* The tool is run in a repository that differs in at most MaxDirty facts
\* from one with the canonical tree complete, no IDE folder, and every
\* destination of an IDE folder that exists holding the canonical content.
\* A fact is: the canonical tree is missing; one canonical file is missing;
\* one IDE folder exists; one destination is absent or holds other content.
MaxDirty == 2

CanonicalContent == "X"
OtherContent == "Y"

SourceRels == { TEMPLATES[i] : i \in 1..Len(TEMPLATES) }
              \cup { REFERENCES[i] : i \in 1..Len(REFERENCES) }
              \cup { SCRIPTS[i] : i \in 1..Len(SCRIPTS) }

Destinations(names) ==
    UNION { { IDE_MANIFESTS[n][k] : k \in DOMAIN IDE_MANIFESTS[n] } : n \in names }

RECURSIVE SubsetsUpTo(_, _)
SubsetsUpTo(S, k) ==
    IF k <= 0 THEN {{}}
    ELSE LET smaller == SubsetsUpTo(S, k - 1)
         IN smaller \cup { T \cup {x} : T \in smaller, x \in S }

\* The filesystem with the canonical files other than missing, and the
\* destinations of the IDE folders roots, of which absent do not exist and
\* differing hold other content.
Repository(missing, roots, absent, differing) ==
    LET sources == { Join(CANONICAL, r) : r \in SourceRels \ missing }
        present == Destinations(roots) \ absent
    IN [p \in sources \cup present |->
          IF p \in differing THEN OtherContent ELSE CanonicalContent]

DirectoriesOf(f, canonical, roots) ==
    (IF canonical THEN {CANONICAL} \cup Ancestors(CANONICAL) ELSE {})
    \cup roots \cup UNION { Ancestors(p) : p \in DOMAIN f }

----------------------------------------------------------------------------
(* Specifications                                                           *)

ScanIdle ==
    /\ scan_file = NoFile /\ scan_num = 0 /\ last_update_line = -1
    /\ last_update_file = "None" /\ scan_pc = "idle"

ExtIdle ==
    /\ ext_file = NoFile /\ after_line = -1 /\ ext_num = 0
    /\ result = <<>> /\ ext_pc = "idle"

MainLocalsInit ==
    /\ sessions = <<>> /\ idx = 0 /\ update_session = NoFile
    /\ update_line = -1 /\ update_file = "None" /\ update_session_idx = -1
    /\ all_messages = <<>> /\ inter_idx = 0 /\ output = NoOutput

MainIdle ==
    /\ ide = "unknown" /\ project_dir = [exists |-> FALSE, files |-> {}]
    /\ pc = "idle" /\ MainLocalsInit

SyncLocalsInit ==
    /\ sync_pc = "start" /\ ide_idx = 0 /\ entry_idx = 0 /\ src = "" /\ dst = ""
    /\ action = "" /\ stats = ZeroStats /\ ide_changes = 0 /\ printed = <<>>
    /\ written = {} /\ exit_code = -1
    /\ run = 1 /\ stats1 = ZeroStats

SyncIdle ==
    /\ dry_run = FALSE /\ verify = FALSE /\ dirs = {} /\ fs = <<>>
    /\ fs0 = <<>> /\ dirs0 = {}
    /\ sync_pc = "idle" /\ ide_idx = 0 /\ entry_idx = 0 /\ src = "" /\ dst = ""
    /\ action = "" /\ stats = ZeroStats /\ ide_changes = 0 /\ printed = <<>>
    /\ written = {} /\ exit_code = -1
    /\ run = 1 /\ stats1 = ZeroStats

BuildIdle ==
    /\ build_args = [base |-> "", ref_style |-> "skip", template_dirs |-> DirsNone,
                     include_scripts |-> FALSE, extra_template_dirs |-> <<>>]
    /\ manifest = <<>>
    /\ build_pc = "idle"

\* scan_for_planning_update or extract_messages_from_session, run on one
\* session file.
InitScan ==
    /\ scan_file \in FilesOver(ScanLines)
    /\ scan_num = 0
    /\ last_update_line = -1
    /\ last_update_file = "None"
    /\ scan_pc = "loop"
    /\ ExtIdle /\ MainIdle /\ SyncIdle /\ BuildIdle

InitExt ==
    /\ ext_file \in FilesOver(ExtLines)
    /\ after_line \in AfterLines
    /\ ext_num = 0
    /\ result = <<>>
    /\ ext_pc = "loop"
    /\ ScanIdle /\ MainIdle /\ SyncIdle /\ BuildIdle

InitSession == InitScan \/ InitExt

NextSession == ScanStep \/ ScanReturn \/ ExtStep \/ ExtReturn

SpecSession == InitSession /\ [][NextSession]_vars

\* main of session-catchup.py, run on one project directory.
InitCatchup ==
    /\ ide \in IdeKinds
    /\ project_dir \in ProjectDirs
    /\ pc = "start"
    /\ MainLocalsInit
    /\ ScanIdle /\ ExtIdle /\ SyncIdle /\ BuildIdle

NextCatchup ==
    \/ MainStart \/ MainScan \/ MainNoUpdate
    \/ MainExtractUpdate \/ MainIntermediate \/ MainReport

SpecCatchup == InitCatchup /\ [][NextCatchup]_vars

\* main of sync-ide-folders.py, run once on one repository.
InitSync ==
    /\ dry_run \in BOOLEAN
    /\ verify \in BOOLEAN
    /\ \E canonical \in BOOLEAN :
       LET budget == MaxDirty - (IF canonical THEN 0 ELSE 1) IN
       \E roots \in SubsetsUpTo(IdeNames, budget) :
       \E missing \in SubsetsUpTo(IF canonical THEN SourceRels ELSE {},
                                  budget - Cardinality(roots)) :
       \E absent \in SubsetsUpTo(Destinations(roots),
                                 budget - Cardinality(roots) - Cardinality(missing)) :
       \E differing \in SubsetsUpTo(Destinations(roots) \ absent,
                                    budget - Cardinality(roots) - Cardinality(missing)
                                           - Cardinality(absent)) :
          /\ fs = Repository(IF canonical THEN missing ELSE SourceRels,
                             roots, absent, differing)
          /\ dirs = DirectoriesOf(fs, canonical, roots)
    /\ fs0 = fs
    /\ dirs0 = dirs
    /\ SyncLocalsInit
    /\ ScanIdle /\ ExtIdle /\ MainIdle /\ BuildIdle

NextSync ==
    \/ SyncStart \/ SyncSkipIde \/ SyncEnterIde \/ SyncVerifyEntry
    \/ SyncEntry \/ SyncEndIde \/ SyncSummary

SpecSync == InitSync /\ [][NextSync]_vars

\* main of sync-ide-folders.py, run in normal mode and then once more.
InitResync == InitSync /\ ~dry_run /\ ~verify

NextResync == NextSync \/ SyncRerun

SpecResync == InitResync /\ [][NextResync]_vars

\* _build_manifest, called on one configuration.  The lists of template
\* directories have at most MaxTemplateDirs names.
MaxTemplateDirs == 2

Bases == {".codex/skills/planning-with-files", ".continue/skills/planning-with-files"}

TemplateDirNames == {"templates/", "assets/templates/"}

RefStyles == {"flat", "subdir", "skip"}

DirLists == UNION { [1..n -> TemplateDirNames] : n \in 0..MaxTemplateDirs }

InitManifest ==
    /\ build_args \in
         [base : Bases, ref_style : RefStyles,
          template_dirs : {DirsNone} \cup { DirsGiven(l) : l \in DirLists },
          include_scripts : BOOLEAN, extra_template_dirs : DirLists]
    /\ manifest = <<>>
    /\ build_pc = "called"
    /\ ScanIdle /\ ExtIdle /\ MainIdle /\ SyncIdle

NextManifest == BuildManifest

SpecManifest == InitManifest /\ [][NextManifest]_vars

----------------------------------------------------------------------------
(* What the claims say of one session file, stated on the file's records    *)
(* and not on the functions' code                                           *)

LineNumbers(file) == 0..(Len(file.lines) - 1)
LineAt(file, n) == file.lines[n + 1]

\* The planning filenames a record's Write or Edit tool_use items target.
PlanningNames(line) ==
    { PLANNING_FILES[k] : k \in
        { k \in 1..Len(PLANNING_FILES) :
            \E i \in 1..Len(line.items) :
                /\ line.items[i].type = "tool_use"
                /\ line.items[i].name \in {"Write", "Edit"}
                /\ EndsWith(line.items[i].file_path, PLANNING_FILES[k]) } }

\* An assistant record containing a Write or Edit tool_use whose file_path
\* ends with a planning filename.
IsPlanningEdit(line) ==
    /\ line.json = "object"
    /\ line.type = "assistant"
    /\ line.ckind = "list"
    /\ PlanningNames(line) # {}

MatchingLines(file) == { n \in LineNumbers(file) : IsPlanningEdit(LineAt(file, n)) }

\* Valid JSON whose shape does not match: a top-level non-object, or a
\* content list holding a non-object item.
ShapeMismatch(line) ==
    \/ line.json = "nonobject"
    \/ /\ line.json = "object"
       /\ line.ckind = "list"
       /\ \E i \in 1..Len(line.items) : line.items[i].type = "nondict"

\* A line that cannot be used.
Unusable(line) == line.json = "invalid" \/ ShapeMismatch(line)

WellShaped(file) == \A n \in LineNumbers(file) : ~ShapeMismatch(LineAt(file, n))

\* The text of a record: the string content; of a content list, the first
\* text item for a user record and the last one for an assistant record.
RECURSIVE LastText(_, _)
LastText(items, i) ==
    IF i < 1 THEN ""
    ELSE IF items[i].type = "text" THEN items[i].text
    ELSE LastText(items, i - 1)

RecordText(line) ==
    IF line.ckind = "str" THEN line.text
    ELSE IF line.ckind # "list" THEN ""
    ELSE IF line.type = "user" THEN FirstText(line.items, 1)
    ELSE LastText(line.items, Len(line.items))

ToolUseCount(line) ==
    IF line.ckind # "list" THEN 0
    ELSE Cardinality({ i \in 1..Len(line.items) : line.items[i].type = "tool_use" })

\* The retention rule of the extractor, as claimed.
Retainable(line) ==
    /\ line.json = "object"
    /\ \/ /\ line.type = "user"
          /\ ~line.isMeta
          /\ ~\E p \in SystemPrefixes : StartsWith(RecordText(line), p)
          /\ Len(RecordText(line)) >= 21
       \/ /\ line.type = "assistant"
          /\ (RecordText(line) # "" \/ ToolUseCount(line) >= 1)

ResultLines(msgs) == { msgs[k].line : k \in 1..Len(msgs) }

\* The lines the extractor is asked about: those after after_line.
Asked(n) == after_line < 0 \/ n > after_line

\* C2: when the scanner returns, it returns the index of the highest-numbered
\* line that is an assistant record with a Write or Edit of a planning file,
\* with a planning filename of that line, and (-1, None) exactly when the
\* file has no such line.
C2_ScanReturnsLastMatch ==
    scan_pc = "returned" =>
        LET M == MatchingLines(scan_file) IN
          IF M = {}
          THEN last_update_line = -1 /\ last_update_file = "None"
          ELSE /\ last_update_line = SetMax(M)
               /\ last_update_file \in PlanningNames(LineAt(scan_file, SetMax(M)))

\* The statement of C2 on the files none of whose lines has a mismatching
\* shape: it holds there.
C2_OnWellShapedFiles == WellShaped(scan_file) => C2_ScanReturnsLastMatch

\* C6: when the extractor returns, a record after after_line whose shape
\* matches is in the result exactly when the retention rule keeps it; a
\* retained assistant record with tool invocations and no text has empty
\* content and a non-empty tools list.
C6_RetainsExactly ==
    ext_pc = "returned" =>
        /\ \A n \in LineNumbers(ext_file) :
              (Asked(n) /\ ~ShapeMismatch(LineAt(ext_file, n))) =>
                  (n \in ResultLines(result) <=> Retainable(LineAt(ext_file, n)))
        /\ \A k \in 1..Len(result) :
              LET line == LineAt(ext_file, result[k].line) IN
                (line.type = "assistant" /\ RecordText(line) = "") =>
                    (result[k].content = "" /\ result[k].tools # <<>>)
        /\ \A n \in LineNumbers(ext_file) : ~Asked(n) => n \notin ResultLines(result)

\* The statement of C6 on the files none of whose lines has a mismatching
\* shape: it holds there.
C6_OnWellShapedFiles == WellShaped(ext_file) => C6_RetainsExactly

\* C10: a line that cannot be used is skipped and the following lines are
\* still processed: when the scanner returns, a planning edit that comes after
\* an unusable line is found (the reported line is at least its index), and
\* when the extractor returns, a retainable record that comes after an
\* unusable line is in the result.
C10_SkipsAndContinues ==
    /\ scan_pc = "returned" =>
          \A i, j \in LineNumbers(scan_file) :
              (i < j /\ Unusable(LineAt(scan_file, i))
                     /\ IsPlanningEdit(LineAt(scan_file, j)))
                  => last_update_line >= j
    /\ ext_pc = "returned" =>
          \A i, j \in LineNumbers(ext_file) :
              (i < j /\ Asked(j) /\ Unusable(LineAt(ext_file, i))
                     /\ ~ShapeMismatch(LineAt(ext_file, j))
                     /\ Retainable(LineAt(ext_file, j)))
                  => j \in ResultLines(result)

\* The part of C10 that the code keeps: a line json.loads rejects is skipped
\* and the following lines are processed.
C10_OnUnparsableOnly ==
    /\ (scan_pc = "returned" /\ WellShaped(scan_file)) => scan_num = Len(scan_file.lines)
    /\ (ext_pc = "returned" /\ WellShaped(ext_file)) => ext_num = Len(ext_file.lines)

----------------------------------------------------------------------------
(* What the claims say of a run of main, stated on the project directory    *)

\* The main sessions of the directory, and the most recently modified one.
MainSessions ==
    { f \in project_dir.files :
        EndsWith(f.name, ".jsonl") /\ ~StartsWith(f.name, "agent-") }

NewestSession == CHOOSE f \in MainSessions : \A g \in MainSessions : g.mtime <= f.mtime

RECURSIVE OldestFirst(_)
OldestFirst(files) ==
    IF files = {} THEN <<>>
    ELSE LET oldest == CHOOSE f \in files : \A g \in files : f.mtime <= g.mtime
         IN <<oldest>> \o OldestFirst(files \ {oldest})

\* The messages of a session after a line, as <<session id, line>> pairs in
\* increasing line order: its retainable records.
RECURSIVE MessagesFrom(_, _, _)
MessagesFrom(file, after, n) ==
    IF n >= Len(file.lines) THEN <<>>
    ELSE (IF n > after /\ ~ShapeMismatch(LineAt(file, n)) /\ Retainable(LineAt(file, n))
          THEN << <<SessionId(file), n>> >> ELSE <<>>)
         \o MessagesFrom(file, after, n + 1)

RECURSIVE AllMessagesOf(_, _)
AllMessagesOf(files, k) ==
    IF k > Len(files) THEN <<>>
    ELSE MessagesFrom(files[k], -1, 0) \o AllMessagesOf(files, k + 1)

Listed == [k \in 1..Len(all_messages) |-> <<all_messages[k].session, all_messages[k].line>>]

MarkerFound == pc = "done" /\ update_session_idx >= 0

AllWellShaped == \A f \in MainSessions : WellShaped(f)

\* C1: when main has built the unsynced message list, it is the marker
\* session's messages after the marker line, in line order, followed by the
\* messages of every session newer than the marker session other than the
\* newest one, oldest session first.
C1_UnsyncedOrder ==
    MarkerFound =>
        LET newer == { f \in MainSessions :
                         f.mtime > update_session.mtime /\ f # NewestSession }
        IN Listed = MessagesFrom(update_session, update_line, 0)
                      \o AllMessagesOf(OldestFirst(newer), 1)

\* The statement of C1 on the directories whose sessions have no line of a
\* mismatching shape: it holds there.
C1_OnWellShapedFiles == AllWellShaped => C1_UnsyncedOrder

\* C7: on the Claude Code path, the marker session is the most recently
\* modified session, other than the newest one, that contains a planning-file
\* write or edit, no older session contributes a message, and with fewer than
\* 2 sessions or no such session the run ends with no output.
C7_MarkerSession ==
    (pc = "done" /\ ide # "opencode" /\ project_dir.exists) =>
        LET previous == MainSessions \ {NewestSession}
            edited == { f \in previous : MatchingLines(f) # {} }
        IN IF Cardinality(MainSessions) < 2 \/ edited = {}
           THEN output = NoOutput /\ update_session = NoFile
           ELSE /\ update_session =
                       CHOOSE f \in edited : \A g \in edited : g.mtime <= f.mtime
                /\ \A k \in 1..Len(all_messages) : \A f \in MainSessions :
                       all_messages[k].session = SessionId(f)
                           => f.mtime >= update_session.mtime

\* The statement of C7 on the directories whose sessions have no line of a
\* mismatching shape: it holds there.
C7_OnWellShapedFiles == AllWellShaped => C7_MarkerSession

----------------------------------------------------------------------------
(* What the claims say of a run of the sync tool                            *)

\* What a comparison of the two files by content calls for.
ExpectedAction(f, s, d) ==
    IF s \notin DOMAIN f THEN "missing_src"
    ELSE IF d \notin DOMAIN f THEN "created"
    ELSE IF f[d] = f[s] THEN "skipped"
    ELSE "updated"

\* The files p other than d are the same in f and g.
SameBut(f, g, d) ==
    /\ DOMAIN f \ {d} = DOMAIN g \ {d}
    /\ \A p \in DOMAIN f \ {d} : f[p] = g[p]

\* sync_file has been called in this run: src, dst and action are those of
\* the latest call.
Called == ~verify /\ action # ""

\* C3: in normal mode a call of sync_file returns "missing_src" and writes
\* nothing when the source does not exist; "skipped" when both files exist
\* with the same content, leaving the destination as it was; "created" when
\* the destination does not exist and "updated" when it exists with other
\* content, and after either the destination exists with the content of
\* the source.  No other file changes.
C3_SyncFileOutcome ==
    [][ (sync_pc = "entry" /\ ~verify /\ ~dry_run /\ entry_idx' = entry_idx + 1) =>
          /\ action' = ExpectedAction(fs, src', dst')
          /\ action' \in {"created", "updated"} =>
                /\ dst' \in DOMAIN fs'
                /\ fs'[dst'] = fs[src']
                /\ SameBut(fs, fs', dst')
          /\ action' \in {"skipped", "missing_src"} =>
                /\ fs' = fs
                /\ written' = written ]_vars

\* A normal run has just created a destination that did not exist.
C3_Witness ==
    /\ ~dry_run /\ ~verify
    /\ sync_pc = "entry"
    /\ action = "created"
    /\ dst \notin DOMAIN fs0
    /\ dst \in DOMAIN fs /\ fs[dst] = fs[src]

\* C4: a dry run and a verify run leave every file as it was, and a dry-run
\* call of sync_file returns the action the normal call would return: with
\* a source and a destination of different contents it returns "updated"
\* and the destination keeps its content.
C4_DryRunAndVerifyWriteNothing ==
    /\ (dry_run \/ verify) => fs = fs0 /\ dirs = dirs0 /\ written = {}
    /\ (dry_run /\ Called) =>
          /\ action = ExpectedAction(fs, src, dst)
          /\ action = sync_file(fs, dirs, src, dst, FALSE).action
          /\ (src \in DOMAIN fs /\ dst \in DOMAIN fs /\ fs[src] # fs[dst]) =>
                action = "updated"

\* A dry run has called sync_file on a source X and a destination Y: the
\* call returned "updated" and the destination still holds Y.
C4_Witness ==
    /\ dry_run /\ Called
    /\ action = "updated"
    /\ fs[src] = CanonicalContent
    /\ fs[dst] = OtherContent

\* The manifest entries, <<IDE, key>>, with the source and the destination.
ManifestEntries ==
    UNION { { <<n, k>> : k \in DOMAIN IDE_MANIFESTS[n] } : n \in DOMAIN IDE_MANIFESTS }

SourceOf(e) == Join(CANONICAL, BeforeFirst(e[2], "__extra_", 1))
DestinationOf(e) == IDE_MANIFESTS[e[1]][e[2]]

\* The entries of the IDE folders that exist whose source exists and whose
\* destination is absent, or differs from the source.
AbsentEntries(f, ds) ==
    { e \in ManifestEntries :
        e[1] \in ds /\ SourceOf(e) \in DOMAIN f /\ DestinationOf(e) \notin DOMAIN f }

DifferingEntries(f, ds) ==
    { e \in ManifestEntries :
        /\ e[1] \in ds /\ SourceOf(e) \in DOMAIN f /\ DestinationOf(e) \in DOMAIN f
        /\ f[DestinationOf(e)] # f[SourceOf(e)] }

DriftCount(f, ds) == Cardinality(AbsentEntries(f, ds)) + Cardinality(DifferingEntries(f, ds))

Tagged(tag) == { i \in 1..Len(printed) : printed[i][1] = tag }

\* C5 as stated: a verify run ends with the drift counter equal to the
\* number of drifting entries, and exits 1 exactly when that number is
\* above zero, 0 otherwise.
C5_VerifyExitCode ==
    (verify /\ sync_pc = "exited") =>
        /\ stats.drift = DriftCount(fs0, dirs0)
        /\ exit_code = 1 <=> DriftCount(fs0, dirs0) > 0
        /\ exit_code = 0 <=> DriftCount(fs0, dirs0) = 0

\* C5, amended: when the canonical tree exists, a verify run ends with the
\* drift counter equal to the number of drifting entries, reports each
\* absent destination as MISSING and each differing one as DRIFT, and exits
\* 1 exactly when that number is above zero, 0 otherwise; when the
\* canonical tree does not exist the run exits 1 having compared nothing.
C5_VerifyExitCodeGivenCanonical ==
    (verify /\ sync_pc = "exited") =>
        IF CANONICAL \in dirs0
        THEN /\ stats.drift = DriftCount(fs0, dirs0)
             /\ Cardinality(Tagged("MISSING")) = Cardinality(AbsentEntries(fs0, dirs0))
             /\ Cardinality(Tagged("DRIFT")) = Cardinality(DifferingEntries(fs0, dirs0))
             /\ exit_code = 1 <=> DriftCount(fs0, dirs0) > 0
             /\ exit_code = 0 <=> DriftCount(fs0, dirs0) = 0
        ELSE /\ exit_code = 1
             /\ printed = <<>>

\* A verify run on a complete canonical tree has found a destination absent
\* and exited 1.
C5_Witness ==
    /\ verify /\ sync_pc = "exited"
    /\ CANONICAL \in dirs0
    /\ Tagged("MISSING") # {}
    /\ stats.drift > 0
    /\ exit_code = 1

AllDestinations == { DestinationOf(e) : e \in ManifestEntries }

NoDestinationInCanonical ==
    \A p \in AllDestinations : p # CANONICAL /\ ~Inside(p, CANONICAL)

\* C8: no manifest destination is the canonical tree or lies under it, the
\* run writes manifest destinations only, and the files and directories
\* under the canonical tree stay as they were.
C8_CanonicalUntouched ==
    /\ NoDestinationInCanonical
    /\ \A p \in written : p \in AllDestinations /\ ~Inside(p, CANONICAL)
    /\ { p \in DOMAIN fs : Inside(p, CANONICAL) } = { p \in DOMAIN fs0 : Inside(p, CANONICAL) }
    /\ \A p \in DOMAIN fs0 : Inside(p, CANONICAL) => fs[p] = fs0[p]
    /\ { d \in dirs : d = CANONICAL \/ Inside(d, CANONICAL) }
         = { d \in dirs0 : d = CANONICAL \/ Inside(d, CANONICAL) }

\* A normal run has ended after replacing a destination that differed.
C8_Witness ==
    /\ ~dry_run /\ ~verify
    /\ sync_pc = "exited"
    /\ stats.updated > 0
    /\ written # {}

ManifestsInjective ==
    \A n \in DOMAIN IDE_MANIFESTS :
       \A k1, k2 \in DOMAIN IDE_MANIFESTS[n] :
          k1 # k2 => IDE_MANIFESTS[n][k1] # IDE_MANIFESTS[n][k2]

\* C9: in the manifest of every IDE the destinations of two keys differ, so
\* the entries a run goes through in one IDE folder never name a
\* destination twice; the keys tagged with an extra template directory
\* have destinations of their own.
C9_DestinationsDistinct ==
    /\ ManifestsInjective
    /\ sync_pc = "entry" =>
          \A i, j \in 1..Len(manifest_items) :
             i # j => manifest_items[i][2] # manifest_items[j][2]

\* The run has handled the entry of .codex whose key carries the tag of the
\* extra template directory, and earlier the entry of the same template.
C9_Witness ==
    /\ sync_pc = "entry"
    /\ ide_name = ".codex"
    /\ entry_idx > 1
    /\ manifest_items[entry_idx][1] = "templates/findings.md__extra_assets/templates/"
    /\ manifest_items[entry_idx - 1][1] = "templates/findings.md"
    /\ dst = ".codex/skills/planning-with-files/assets/templates/findings.md"

----------------------------------------------------------------------------
(* What the claims say of the records the scanner considers                 *)

\* C11: the line the scanner returns as the planning update is never a
\* record with isMeta true: only assistant records that are not meta are
\* considered.
C11_MetaNeverMarker ==
    (scan_pc = "returned" /\ last_update_line # -1) =>
        /\ LineAt(scan_file, last_update_line).type = "assistant"
        /\ ~LineAt(scan_file, last_update_line).isMeta

\* The scanner reports nothing but lines of type assistant, meta or not.
C11_AssistantOnly ==
    (scan_pc = "returned" /\ last_update_line # -1) =>
        LineAt(scan_file, last_update_line).type = "assistant"

----------------------------------------------------------------------------
(* What the claims say of a manifest _build_manifest returns                *)

\* The template directories of the call: the standard one by default.
AskedTemplateDirs ==
    IF build_args.template_dirs.given THEN build_args.template_dirs.dirs
    ELSE <<"templates/">>

ManifestDestinations == { manifest[k] : k \in DOMAIN manifest }

TemplateSet == { TEMPLATES[i] : i \in 1..Len(TEMPLATES) }

\* C12: the manifest returned has, for every directory of template_dirs and
\* every template, an entry whose destination is base/directory/name of
\* the template; with template_dirs empty it has no entry keyed by a
\* template.
C12_EveryTemplateDirServed ==
    build_pc = "returned" =>
        /\ \A i \in 1..Len(AskedTemplateDirs) : \A t \in TemplateSet :
              Join(Join(build_args.base, AskedTemplateDirs[i]), PathName(t))
                 \in ManifestDestinations
        /\ Len(AskedTemplateDirs) = 0 => DOMAIN manifest \cap TemplateSet = {}

\* The statement of C12 on the calls that name at most one template
\* directory: it holds there.
C12_OnAtMostOneDir == Len(AskedTemplateDirs) <= 1 => C12_EveryTemplateDirServed

----------------------------------------------------------------------------
(* What the claims say of a run that follows a normal run                   *)

\* C13: in a run that follows a normal run which returned from main, on the
\* filesystem that run left, nothing is created or updated, no drift is
\* counted or reported, no file or directory changes, and the run exits 0.
C13_SecondRunFindsNothing ==
    run = 2 =>
        /\ stats.created = 0 /\ stats.updated = 0 /\ stats.drift = 0
        /\ \A i \in 1..Len(printed) :
              printed[i][1] \notin {"CREATED", "UPDATED", "DRIFT", "MISSING"}
        /\ fs = fs0 /\ dirs = dirs0 /\ written = {}
        /\ sync_pc = "exited" => exit_code = 0

\* A verify run has exited 0 after a normal run that updated a destination.
C13_Witness ==
    /\ run = 2
    /\ verify
    /\ sync_pc = "exited"
    /\ stats1.updated > 0
    /\ stats.drift = 0
    /\ exit_code = 0

=============================================================================
